---- MODULE Spec2Model ----
(***************************************************************************)
(* The restore coordination of stash (pkg/restore/restore.go): replicas of *)
(* one workload ("contenders") each run Restore.  In the "job" restore     *)
(* model Restore runs runRestore directly; otherwise it runs a leader      *)
(* election on a lock keyed by the target workload and runs runRestore in  *)
(* the OnStartedLeading callback, which client-go starts as a goroutine    *)
(* beside the lease-renewal loop of RunOrDie.                              *)
(*                                                                         *)
(* Time is counted in ticks of TickSeconds seconds.  Waiting on the lock,  *)
(* API calls and the engine call take any amount of time; computation      *)
(* between them takes none (no goroutine is held up for a tick); the renew *)
(* loop gives up exactly RenewDeadline after the last successful renewal,  *)
(* and from there to the end of the process no time passes.                *)
(***************************************************************************)
EXTENDS Integers, FiniteSets, Sequences, TLC

\* ---------------------------------------------------------------- bounds
NumContenders == 2
MaxRestarts == 1

Contenders == 1..NumContenders
HostIds == 1..NumContenders
NoHolder == 0

\* ------------------------------------------------------ program constants
RestoreModelInitContainer == "init-container"
RestoreModelJob == "job"

RenewDeadline == 10
\* A lease that runs out before the renew deadline.
LeaseDurationShort == RenewDeadline \div 2
LeaseDuration == 15

RECURSIVE GCD(_, _)
GCD(a, b) == IF b = 0 THEN a ELSE GCD(b, a % b)

\* The granularity of the clock: both durations are whole numbers of ticks.
TickSeconds == GCD(LeaseDuration, RenewDeadline)

Nil == "nil"
TransferErr == "transfer error"
SetupErr == "setup error"

TerminalPhases == {"Succeeded", "Failed"}

VARIABLES
    restoreModel,   \* opt.RestoreModel, the same for every contender
    targetKind,     \* kind of restoreSession.Spec.Target.Ref
    status,         \* RestoreSession.Status in the API server: phase and stats
    lock,           \* HolderIdentity of the lock record (NoHolder: no record yet)
    pc,             \* position of the goroutine that runs Restore
    ex,             \* position of the goroutine that runs runRestore / the callback
    rs,             \* the restoreSession object read at the top of Restore
    out,            \* restoreOutput handed to UpdatePostRestoreStatus
    restoreErr,     \* restoreErr of runRestore (the engine's error)
    ret,            \* the error runRestore returned
    handled,        \* HandleRestoreFailure was called in this process run
    fresh,          \* the object this contender read for its update is still current
    observed,       \* the elector has observed the current lock record
    age,            \* ticks since observedTime (waiting) / the last renewal (leading)
    cancelled,      \* cancel() of the election context was called
    exit,           \* how the process ended: "none", "zero", "nonzero" (log.Fatalln
                    \* or the caller's failure exit), "error" (Restore returned an
                    \* error of its preparation), "killed"
    restarts,       \* kills and restarts after a failure, so far
    events          \* hosts for which a restore-failure event was written

vars == <<restoreModel, targetKind, status, lock, pc, ex, rs, out, restoreErr,
          ret, handled, fresh, observed, age, cancelled, exit, restarts,
          events>>

config == <<restoreModel, targetKind>>

\* ------------------------------------------------------------------ data
NoStat == [phase |-> "None", error |-> ""]
HostRestoreStats(phase, error) == [phase |-> phase, error |-> error]

\* RestoreSession.Status: the phase and, of the list of host entries, the
\* entry of each host (stats) and how many entries carry its name (entries).
EmptyStatus(phase) ==
    [phase |-> phase,
     stats |-> [h \in HostIds |-> NoStat],
     entries |-> [h \in HostIds |-> 0]]

\* util.GetHostName: every replica of a Deployment restores the same host,
\* a replica of a StatefulSet restores the host of its own ordinal.
GetHostName(kind, c) == IF kind = "Deployment" THEN 1 ELSE c

\* The hosts the target's topology makes the job expect.
ExpectedHosts(kind) == {GetHostName(kind, c) : c \in Contenders}

\* A guard that looks at the overall phase only.
isRestoredForThisHostNoStats(restoreSession, host) ==
    restoreSession.phase \in TerminalPhases

isRestoredForThisHost(restoreSession, host) ==
    \/ restoreSession.phase \in TerminalPhases
    \/ restoreSession.stats[host] # NoStat

\* A merge that leaves the overall phase alone.
UpdateStatusKeepPhase(st, kind, host, hostStats) ==
    [phase |-> st.phase,
     stats |-> [st.stats EXCEPT ![host] = hostStats],
     entries |-> [st.entries EXCEPT ![host] = IF @ = 0 THEN 1 ELSE @]]

\* A merge that appends the host's entry whether or not there is one.
UpdateStatusAppend(st, kind, host, hostStats) ==
    LET stats == [st.stats EXCEPT ![host] = hostStats]
        phase == IF hostStats.phase = "Failed" THEN "Failed"
                 ELSE IF \A h \in ExpectedHosts(kind) : stats[h].phase = "Succeeded"
                      THEN "Succeeded"
                      ELSE st.phase
    IN  [phase |-> phase, stats |-> stats,
         entries |-> [st.entries EXCEPT ![host] = @ + 1]]

\* The Status Synchronizer's merge: the host's entry is added or replaced and
\* the overall phase recomputed.
UpdateRestoreSessionStatusForHost(st, kind, host, hostStats) ==
    LET stats == [st.stats EXCEPT ![host] = hostStats]
        phase == IF hostStats.phase = "Failed" THEN "Failed"
                 ELSE IF \A h \in ExpectedHosts(kind) : stats[h].phase = "Succeeded"
                      THEN "Succeeded"
                      ELSE st.phase
    IN  [phase |-> phase, stats |-> stats,
         entries |-> [st.entries EXCEPT ![host] = IF @ = 0 THEN 1 ELSE @]]

\* ------------------------------------------------------------------ time
Expired(c) == age[c] * TickSeconds >= LeaseDuration
Timed(c) == pc[c] = "renew" \/ (pc[c] = "acquire" /\ observed[c])

\* The goroutine is between two waits: it is not in an API call, not in the
\* engine and not sleeping.
Computing(c) ==
    ex[c] \in {"guard", "returned", "cancel_failed", "fatal", "done", "job_failed"}

\* ------------------------------------------------------------------ init
Init ==
    /\ restoreModel \in {RestoreModelInitContainer, RestoreModelJob}
    /\ targetKind \in {"Deployment", "StatefulSet"}
    \* a job per host: the substrate runs one contender per host
    /\ restoreModel = RestoreModelJob => targetKind = "StatefulSet"
    /\ status = EmptyStatus("Running")
    /\ lock = NoHolder
    /\ pc = [c \in Contenders |-> "start"]
    /\ ex = [c \in Contenders |-> "none"]
    /\ rs = [c \in Contenders |-> EmptyStatus("Running")]
    /\ out = [c \in Contenders |-> NoStat]
    /\ restoreErr = [c \in Contenders |-> Nil]
    /\ ret = [c \in Contenders |-> Nil]
    /\ handled = [c \in Contenders |-> FALSE]
    /\ fresh = [c \in Contenders |-> FALSE]
    /\ observed = [c \in Contenders |-> FALSE]
    /\ age = [c \in Contenders |-> 0]
    /\ cancelled = [c \in Contenders |-> FALSE]
    /\ exit = [c \in Contenders |-> "none"]
    /\ restarts = 0
    /\ events = {}

\* The process of c ends with `code`: both goroutines stop and what they held
\* is gone.
ProcessExit(c, code) ==
    /\ exit' = [exit EXCEPT ![c] = code]
    /\ pc' = [pc EXCEPT ![c] = "exited"]
    /\ ex' = [ex EXCEPT ![c] = "none"]
    /\ rs' = [rs EXCEPT ![c] = EmptyStatus("Running")]
    /\ out' = [out EXCEPT ![c] = NoStat]
    /\ fresh' = [fresh EXCEPT ![c] = FALSE]
    /\ observed' = [observed EXCEPT ![c] = FALSE]
    /\ age' = [age EXCEPT ![c] = 0]
    /\ cancelled' = [cancelled EXCEPT ![c] = FALSE]
    /\ restoreErr' = [restoreErr EXCEPT ![c] = Nil]
    /\ ret' = [ret EXCEPT ![c] = Nil]
    /\ handled' = [handled EXCEPT ![c] = FALSE]

\* --------------------------------------------------------------- Restore
\* A Restore that finds its configuration error only after it has created the
\* lock record.
RestoreErrorLocked(c) ==
    /\ pc[c] = "start"
    /\ restarts < MaxRestarts
    /\ restarts' = restarts + 1
    /\ lock' = IF lock = NoHolder THEN c ELSE lock
    /\ ProcessExit(c, "error")
    /\ UNCHANGED <<config, events, status>>

\* Restore returns an error from its preparation: the RestoreSession or the
\* Repository cannot be fetched, the Target is nil, the hostname or the setup
\* options cannot be resolved.  The command ends with a non-zero status.
RestoreError(c) ==
    /\ pc[c] = "start"
    /\ restarts < MaxRestarts
    /\ restarts' = restarts + 1
    /\ ProcessExit(c, "error")
    /\ UNCHANGED <<config, events, status, lock>>

\* A Restore that runs runRestore directly whatever the restore model is.
RestoreDirect(c) ==
    /\ pc[c] = "start"
    /\ rs' = [rs EXCEPT ![c] = status]
    /\ pc' = [pc EXCEPT ![c] = "run"]
    /\ ex' = [ex EXCEPT ![c] = "guard"]
    /\ UNCHANGED <<config, events, status, lock, out, restoreErr, ret, handled, fresh,
                   observed, age, cancelled, exit, restarts>>

\* Restore: read the RestoreSession, then run directly or elect.
Restore(c) ==
    /\ pc[c] = "start"
    /\ rs' = [rs EXCEPT ![c] = status]
    /\ IF restoreModel = RestoreModelJob
       THEN /\ pc' = [pc EXCEPT ![c] = "run"]
            /\ ex' = [ex EXCEPT ![c] = "guard"]
       ELSE /\ pc' = [pc EXCEPT ![c] = "acquire"]
            /\ ex' = ex
    /\ UNCHANGED <<config, events, status, lock, out, restoreErr, ret, handled, fresh,
                   observed, age, cancelled, exit, restarts>>

\* ------------------------------------------------------- leader election
\* The elector takes the lock and starts the callback goroutine.
BecomeLeader(c) ==
    /\ lock' = c
    /\ pc' = [pc EXCEPT ![c] = "renew"]
    /\ ex' = [ex EXCEPT ![c] = "guard"]
    /\ observed' = [d \in Contenders |-> d = c]
    /\ age' = [age EXCEPT ![c] = 0]

\* An acquire loop that never takes over a record of another identity.
tryAcquireNoTakeover(c) ==
    /\ pc[c] = "acquire"
    /\ \/ /\ lock \in {NoHolder, c}
          /\ BecomeLeader(c)
       \/ /\ lock \notin {NoHolder, c}
          /\ ~observed[c]
          /\ observed' = [observed EXCEPT ![c] = TRUE]
          /\ age' = [age EXCEPT ![c] = 0]
          /\ UNCHANGED <<lock, pc, ex>>
    /\ UNCHANGED <<config, events, status, rs, out, restoreErr, ret, handled, fresh,
                   cancelled, exit, restarts>>

\* One tryAcquireOrRenew of the acquire loop that changes something: the lock
\* is taken when there is no record, when the record names this identity, or
\* when the observed record is LeaseDuration old; a record seen for the first
\* time restarts the observation.
tryAcquire(c) ==
    /\ pc[c] = "acquire"
    /\ \/ /\ lock \in {NoHolder, c}
          /\ BecomeLeader(c)
       \/ /\ lock \notin {NoHolder, c}
          /\ observed[c]
          /\ Expired(c)
          /\ BecomeLeader(c)
       \/ /\ lock \notin {NoHolder, c}
          /\ ~observed[c]
          /\ observed' = [observed EXCEPT ![c] = TRUE]
          /\ age' = [age EXCEPT ![c] = 0]
          /\ UNCHANGED <<lock, pc, ex>>
    /\ UNCHANGED <<config, events, status, rs, out, restoreErr, ret, handled, fresh,
                   cancelled, exit, restarts>>

\* A successful renewal: the record is rewritten with a new renew time.
renew(c) ==
    /\ pc[c] = "renew"
    /\ ~cancelled[c]
    /\ lock = c
    /\ age[c] > 0 \/ \E d \in Contenders \ {c} : observed[d]
    /\ age' = [age EXCEPT ![c] = 0]
    /\ observed' = [d \in Contenders |-> d = c]
    /\ UNCHANGED <<config, events, status, lock, pc, ex, rs, out, restoreErr, ret,
                   handled, fresh, cancelled, exit, restarts>>

\* No renewal succeeded within RenewDeadline: the renew loop returns, RunOrDie
\* returns (OnStoppedLeading only logs), electRestoreLeader and Restore return
\* nil and the process ends with status 0, whatever the callback goroutine
\* is doing.
renewDeadlineExceeded(c) ==
    /\ pc[c] = "renew"
    /\ age[c] * TickSeconds >= RenewDeadline
    /\ ProcessExit(c, "zero")
    /\ UNCHANGED <<config, events, status, lock, restarts>>

\* The renew loop sees the cancelled context and returns, with the same end.
\* The record is left as it is: the election is configured without
\* ReleaseOnCancel.
renewCancelled(c) ==
    /\ pc[c] = "renew"
    /\ cancelled[c]
    /\ ProcessExit(c, "zero")
    /\ UNCHANGED <<config, events, status, lock, restarts>>

\* ------------------------------------------------------------ runRestore
\* runRestore up to the engine call: the guard on the object Restore read,
\* then the restic wrapper's setup.  The guard is the object's last use: it
\* is kept when the guard returned early, and dropped otherwise.
runRestoreGuard(c) ==
    /\ ex[c] = "guard"
    /\ IF isRestoredForThisHost(rs[c], GetHostName(targetKind, c))
       THEN /\ ex' = [ex EXCEPT ![c] = "returned"]
            /\ ret' = [ret EXCEPT ![c] = Nil]
       ELSE \/ /\ ex' = [ex EXCEPT ![c] = "engine"]
               /\ ret' = ret
            \/ /\ ex' = [ex EXCEPT ![c] = "returned"]
               /\ ret' = [ret EXCEPT ![c] = SetupErr]
    /\ rs' = IF isRestoredForThisHost(rs[c], GetHostName(targetKind, c))
             THEN rs
             ELSE [rs EXCEPT ![c] = EmptyStatus("Running")]
    /\ UNCHANGED <<config, events, status, lock, pc, out, restoreErr, handled,
                   fresh, observed, age, cancelled, exit, restarts>>

\* w.RunRestore returns statistics of a success, or of a failure with its
\* error, and UpdatePostRestoreStatus reads the current RestoreSession.
RunRestore(c) ==
    /\ ex[c] = "engine"
    /\ \E e \in {Nil, TransferErr} :
          /\ restoreErr' = [restoreErr EXCEPT ![c] = e]
          /\ out' = [out EXCEPT ![c] =
                        IF e = Nil THEN HostRestoreStats("Succeeded", "")
                                   ELSE HostRestoreStats("Failed", e)]
    /\ fresh' = [fresh EXCEPT ![c] = TRUE]
    /\ ex' = [ex EXCEPT ![c] = "sync_put"]
    /\ UNCHANGED <<config, events, status, lock, pc, rs, ret, handled, observed,
                   age, cancelled, exit, restarts>>

\* A runRestore that calls the engine again when it failed.
AfterUpdateRetry(c) ==
    IF handled[c]
    THEN /\ ex' = [ex EXCEPT ![c] = IF restoreModel = RestoreModelJob
                                    THEN "job_failed" ELSE "cancel_failed"]
         /\ ret' = ret
    ELSE /\ ex' = [ex EXCEPT ![c] = IF restoreErr[c] # Nil THEN "engine"
                                                           ELSE "returned"]
         /\ ret' = [ret EXCEPT ![c] = Nil]

\* Where the goroutine goes once the update is written: back into runRestore,
\* which returns what the update returned (nil, or the error it was given),
\* or on from the failure handler.
AfterUpdate(c) ==
    IF handled[c]
    THEN /\ ex' = [ex EXCEPT ![c] = IF restoreModel = RestoreModelJob
                                    THEN "job_failed" ELSE "cancel_failed"]
         /\ ret' = ret
    ELSE /\ ex' = [ex EXCEPT ![c] = "returned"]
         /\ \E e \in {Nil, restoreErr[c]} : ret' = [ret EXCEPT ![c] = e]

\* An update that writes its merge onto the object the contender holds from
\* Restore, whatever has been written since.
UpdatePostRestoreStatusBlind(c) ==
    /\ ex[c] = "sync_put"
    /\ status' = UpdateRestoreSessionStatusForHost(
                     rs[c], targetKind, GetHostName(targetKind, c), out[c])
    /\ fresh' = [d \in Contenders |-> fresh[d] /\ status' = status /\ d # c]
    /\ AfterUpdate(c)
    /\ UNCHANGED <<config, events, lock, pc, rs, out, restoreErr, handled, observed,
                   age, cancelled, exit, restarts>>

\* UpdatePostRestoreStatus writes the merged status: the object it read is
\* still the current one.
UpdatePostRestoreStatusPut(c) ==
    /\ ex[c] = "sync_put"
    /\ fresh[c]
    /\ status' = UpdateRestoreSessionStatusForHost(
                     status, targetKind, GetHostName(targetKind, c), out[c])
    /\ fresh' = [d \in Contenders |-> fresh[d] /\ status' = status /\ d # c]
    /\ AfterUpdate(c)
    /\ UNCHANGED <<config, events, lock, pc, rs, out, restoreErr, handled, observed,
                   age, cancelled, exit, restarts>>

\* The write is refused, another contender wrote since the read: read again.
UpdatePostRestoreStatusConflict(c) ==
    /\ ex[c] = "sync_put"
    /\ ~fresh[c]
    /\ fresh' = [fresh EXCEPT ![c] = TRUE]
    /\ UNCHANGED <<config, events, status, lock, pc, ex, rs, out, restoreErr, ret,
                   handled, observed, age, cancelled, exit, restarts>>

\* -------------------------------------------------- the failure handler
\* A callback that calls cancel() before the failure handler.
HandleRestoreFailureAfterCancel(c) ==
    /\ ex[c] = "returned"
    /\ ret[c] # Nil
    /\ restoreModel = RestoreModelJob => pc[c] = "caller"
    /\ handled' = [handled EXCEPT ![c] = TRUE]
    /\ out' = [out EXCEPT ![c] = HostRestoreStats("Failed", ret[c])]
    /\ fresh' = [fresh EXCEPT ![c] = TRUE]
    /\ ex' = [ex EXCEPT ![c] = "sync_put"]
    /\ cancelled' = [cancelled EXCEPT ![c] = restoreModel # RestoreModelJob]
    /\ UNCHANGED <<config, events, status, lock, pc, rs, restoreErr, ret,
                   observed, age, exit, restarts>>

\* HandleRestoreFailure up to the write of its status update: a Failed entry
\* for this host carrying the error's text.
HandleRestoreFailure(c) ==
    /\ ex[c] = "returned"
    /\ ret[c] # Nil
    /\ restoreModel = RestoreModelJob => pc[c] = "caller"
    /\ handled' = [handled EXCEPT ![c] = TRUE]
    /\ out' = [out EXCEPT ![c] = HostRestoreStats("Failed", ret[c])]
    /\ fresh' = [fresh EXCEPT ![c] = TRUE]
    /\ ex' = [ex EXCEPT ![c] = "sync_put"]
    /\ UNCHANGED <<config, events, status, lock, pc, rs, restoreErr, ret,
                   observed, age, cancelled, exit, restarts>>

\* HandleRestoreFailure returns an error of its own (the RestoreSession cannot
\* be read, the update fails): nothing is written, and the callback goes on
\* with both errors.
HandleRestoreFailureError(c) ==
    /\ ex[c] = "returned"
    /\ ret[c] # Nil
    /\ restoreModel = RestoreModelJob => pc[c] = "caller"
    /\ handled' = [handled EXCEPT ![c] = TRUE]
    /\ ex' = [ex EXCEPT ![c] = IF restoreModel = RestoreModelJob
                                THEN "job_failed" ELSE "cancel_failed"]
    /\ UNCHANGED <<config, events, status, lock, pc, rs, out, restoreErr, ret,
                   fresh, observed, age, cancelled, exit, restarts>>

\* writeRestoreFailureEvent: a warning event on the RestoreSession that names
\* the host and the error.  Nothing calls it: it is part of no step.
writeRestoreFailureEvent(c) ==
    events' = events \cup {GetHostName(targetKind, c)}

\* ------------------------------------------- the OnStartedLeading callback
\* runRestore returned nil: step down.
OnStartedLeadingStepDown(c) ==
    /\ restoreModel # RestoreModelJob
    /\ ex[c] = "returned"
    /\ ret[c] = Nil
    /\ cancelled' = [cancelled EXCEPT ![c] = TRUE]
    /\ ex' = [ex EXCEPT ![c] = "done"]
    /\ UNCHANGED <<config, events, status, lock, pc, rs, out, restoreErr, ret, handled,
                   fresh, observed, age, exit, restarts>>

\* A callback that goes to log.Fatalln without cancel().
OnStartedLeadingNoCancel(c) ==
    /\ ex[c] = "cancel_failed"
    /\ ex' = [ex EXCEPT ![c] = "fatal"]
    /\ UNCHANGED <<config, events, status, lock, pc, rs, out, restoreErr, ret,
                   handled, fresh, observed, age, cancelled, exit, restarts>>

\* After the failure handler: step down ...
OnStartedLeadingCancel(c) ==
    /\ ex[c] = "cancel_failed"
    /\ cancelled' = [cancelled EXCEPT ![c] = TRUE]
    /\ ex' = [ex EXCEPT ![c] = "fatal"]
    /\ UNCHANGED <<config, events, status, lock, pc, rs, out, restoreErr, ret, handled,
                   fresh, observed, age, exit, restarts>>

\* ... and log.Fatalln ends the process with a non-zero status.
OnStartedLeadingFatal(c) ==
    /\ ex[c] = "fatal"
    /\ ProcessExit(c, "nonzero")
    /\ UNCHANGED <<config, events, status, lock, restarts>>

\* ---------------------------------------------------- Restore, job model
\* A Restore that returns nil whatever runRestore returned.
RestoreReturnNil(c) ==
    /\ restoreModel = RestoreModelJob
    /\ pc[c] = "run"
    /\ ex[c] = "returned"
    /\ pc' = [pc EXCEPT ![c] = "caller"]
    /\ ret' = [ret EXCEPT ![c] = Nil]
    /\ UNCHANGED <<config, events, status, lock, ex, rs, out, restoreErr,
                   handled, fresh, observed, age, cancelled, exit, restarts>>

\* Restore returns to its caller what runRestore returned.
RestoreReturn(c) ==
    /\ restoreModel = RestoreModelJob
    /\ pc[c] = "run"
    /\ ex[c] = "returned"
    /\ pc' = [pc EXCEPT ![c] = "caller"]
    /\ UNCHANGED <<config, events, status, lock, ex, rs, out, restoreErr, ret,
                   handled, fresh, observed, age, cancelled, exit, restarts>>

\* ------------------------------------------------ the caller, job model
\* Restore returned runRestore's nil: the command ends with status 0.
JobReturn(c) ==
    /\ restoreModel = RestoreModelJob
    /\ pc[c] = "caller"
    /\ ex[c] = "returned"
    /\ ret[c] = Nil
    /\ ProcessExit(c, "zero")
    /\ UNCHANGED <<config, events, status, lock, restarts>>

\* Restore returned an error and the caller has recorded it: non-zero status.
JobFailed(c) ==
    /\ ex[c] = "job_failed"
    /\ ProcessExit(c, "nonzero")
    /\ UNCHANGED <<config, events, status, lock, restarts>>

\* ------------------------------------------------------ the environment
\* One tick of time passes, unless a goroutine is between two waits or a
\* leader's renew deadline falls before the end of the tick.
Tick ==
    /\ \A c \in Contenders :
          /\ ~Computing(c)
          /\ pc[c] = "renew" => (age[c] + 1) * TickSeconds <= RenewDeadline
    /\ \E c \in Contenders : Timed(c) /\ ~Expired(c)
    /\ age' = [c \in Contenders |->
                  IF Timed(c) /\ ~Expired(c) THEN age[c] + 1 ELSE age[c]]
    /\ UNCHANGED <<config, events, status, lock, pc, ex, rs, out, restoreErr, ret,
                   handled, fresh, observed, cancelled, exit, restarts>>

\* The process is killed from outside while it leads or runs the executor;
\* the supervisor will start it again.  (A process killed while it waits for
\* the lock has done nothing yet: it is a process that starts later.)
Crash(c) ==
    /\ exit[c] = "none"
    /\ pc[c] \in {"renew", "run", "caller"}
    /\ restarts < MaxRestarts
    /\ restarts' = restarts + 1
    /\ ProcessExit(c, "killed")
    /\ UNCHANGED <<config, events, status, lock>>

\* The supervisor starts a process that did not end with status 0 again.  (A
\* kill and an error of Restore's preparation were counted when they happened.)
Restart(c) ==
    /\ \/ /\ exit[c] \in {"killed", "error"}
          /\ restarts' = restarts
       \/ /\ exit[c] = "nonzero"
          /\ restarts < MaxRestarts
          /\ restarts' = restarts + 1
    /\ exit' = [exit EXCEPT ![c] = "none"]
    /\ pc' = [pc EXCEPT ![c] = "start"]
    /\ UNCHANGED <<config, events, status, lock, ex, rs, out, restoreErr, ret, handled,
                   fresh, observed, age, cancelled>>

Next ==
    \/ \E c \in Contenders :
          \/ Restore(c)
          \/ RestoreError(c)
          \/ tryAcquire(c)
          \/ renew(c)
          \/ renewDeadlineExceeded(c)
          \/ renewCancelled(c)
          \/ runRestoreGuard(c)
          \/ RunRestore(c)
          \/ UpdatePostRestoreStatusPut(c)
          \/ UpdatePostRestoreStatusConflict(c)
          \/ HandleRestoreFailure(c)
          \/ HandleRestoreFailureError(c)
          \/ OnStartedLeadingStepDown(c)
          \/ OnStartedLeadingCancel(c)
          \/ OnStartedLeadingFatal(c)
          \/ RestoreReturn(c)
          \/ JobReturn(c)
          \/ JobFailed(c)
          \/ Crash(c)
          \/ Restart(c)
    \/ Tick

Spec == Init /\ [][Next]_vars

\* Every goroutine that can take a step takes one, time passes, and the
\* supervisor restarts what it has to restart; nothing makes a crash happen.
Fairness ==
    /\ WF_vars(Tick)
    /\ \A c \in Contenders :
          /\ WF_vars(Restore(c))
          /\ WF_vars(tryAcquire(c))
          /\ WF_vars(renewDeadlineExceeded(c))
          /\ WF_vars(renewCancelled(c))
          /\ WF_vars(runRestoreGuard(c))
          /\ WF_vars(RunRestore(c))
          /\ WF_vars(UpdatePostRestoreStatusPut(c))
          /\ WF_vars(UpdatePostRestoreStatusConflict(c))
          /\ WF_vars(HandleRestoreFailure(c) \/ HandleRestoreFailureError(c))
          /\ WF_vars(OnStartedLeadingStepDown(c))
          /\ WF_vars(OnStartedLeadingCancel(c))
          /\ WF_vars(OnStartedLeadingFatal(c))
          /\ WF_vars(RestoreReturn(c))
          /\ WF_vars(JobReturn(c))
          /\ WF_vars(JobFailed(c))
          /\ WF_vars(Restart(c))

LiveSpec == Spec /\ Fairness

\* ------------------------------------------------------------- shorthand
Exclusive == restoreModel # RestoreModelJob
Host(c) == GetHostName(targetKind, c)
Alive(c) == exit[c] = "none"

\* The process of c ends by itself in this step.
Exits(c) == exit[c] = "none" /\ exit'[c] \in {"zero", "nonzero", "error"}

\* The object Restore read for c makes the guard of runRestore hold.  (The
\* object is dropped when the guard does not hold and when the process ends.)
AlreadyDone(c) ==
    \/ rs[c].phase \in TerminalPhases
    \/ rs[c].stats[Host(c)] # NoStat

Leading(c) == pc[c] = "renew"

\* ---------------------------------------------------------------- claims

\* C1: in the exclusive model, whatever the order of acquisitions, renewals,
\* lease expiries, step-downs and restarts, no two contenders are inside the
\* engine call (w.RunRestore) at the same time.
C1_MutualExclusion ==
    Exclusive =>
        \A a, b \in Contenders : a # b => ~(ex[a] = "engine" /\ ex[b] = "engine")

\* C1 witness: a leader is inside the engine call while another contender,
\* having observed its lock record some ticks ago, waits for the lock.
C1_Witness ==
    /\ Exclusive
    /\ \E a, b \in Contenders :
          /\ a # b
          /\ lock = a /\ ex[a] = "engine"
          /\ pc[b] = "acquire" /\ observed[b] /\ age[b] > 0

\* C2: whenever runRestore passes its guard and goes on to the engine, the
\* RestoreSession holds no entry for this contender's host.
C2_Idempotency ==
    [][\A c \in Contenders :
          (ex[c] = "guard" /\ ex'[c] = "engine") => status.stats[Host(c)] = NoStat]_vars

\* C3: once the phase is Succeeded or Failed, no step adds or changes a host
\* entry.
C3_TerminalLockIn ==
    [][status.phase \in TerminalPhases => status'.stats = status.stats]_vars

\* C4: a process whose engine call returned an error ends by itself only
\* when the RestoreSession is Failed and holds this host's Failed entry with
\* the error's text.
C4_FailFast ==
    [][\A c \in Contenders :
          (Exits(c) /\ restoreErr[c] # Nil) =>
             /\ status.phase = "Failed"
             /\ status.stats[Host(c)] = HostRestoreStats("Failed", restoreErr[c])]_vars

\* C5: a process in which the failure handler ran does not end with status 0,
\* however the callback's cancel() and log.Fatalln interleave with the
\* election loop's return from RunOrDie.
C5_ExitContract ==
    [][\A c \in Contenders : (Alive(c) /\ handled[c]) => exit'[c] # "zero"]_vars

\* C6: at every moment the phase is Succeeded exactly when every expected
\* host has a Succeeded entry, and Failed exactly when some host has a Failed
\* entry; otherwise it is Running.  An update that records a host's failure
\* makes the phase Failed in the same step.
C6_PhaseAggregation ==
    /\ [](/\ status.phase = "Succeeded" <=>
                \A h \in ExpectedHosts(targetKind) : status.stats[h].phase = "Succeeded"
          /\ status.phase = "Failed" <=>
                \E h \in HostIds : status.stats[h].phase = "Failed"
          /\ status.phase \in {"Running", "Succeeded", "Failed"})
    /\ [][\A h \in HostIds :
             (status'.stats[h] # status.stats[h] /\ status'.stats[h].phase = "Failed")
                => status'.phase = "Failed"]_vars

\* C6 witness: of two expected hosts one has succeeded and the other failed,
\* and the phase is Failed.
C6_Witness ==
    /\ Cardinality(ExpectedHosts(targetKind)) > 1
    /\ status.phase = "Failed"
    /\ \E g, h \in ExpectedHosts(targetKind) :
          /\ status.stats[g].phase = "Succeeded"
          /\ status.stats[h].phase = "Failed"

\* C7: a contender that read a terminal phase in Restore never goes on to the
\* engine, has no error and ends, if it ends by itself, with status 0; and once
\* the phase is terminal no step changes it.
C7_NoRetryOfTerminal ==
    [][/\ \A c \in Contenders :
             rs[c].phase \in TerminalPhases =>
                /\ ex'[c] \notin {"engine", "sync_put"}
                /\ ret'[c] = Nil
                /\ Exits(c) => exit'[c] = "zero"
       /\ status.phase \in TerminalPhases => status'.phase = status.phase]_vars

\* C8: a contender whose guard holds (terminal phase, or an entry for its
\* host, in the object it read) goes from the guard to the return of nil only:
\* never to the engine, the status update or the failure handler, and no step
\* of its own changes the status.
C8_AlreadyDoneNoOp ==
    [][\A c \in Contenders :
          AlreadyDone(c) =>
             /\ ex'[c] \in {"none", "guard", "returned", "done"}
             /\ ret'[c] = Nil
             /\ ~handled'[c]
             /\ out'[c] = NoStat
             /\ status' # status => \E d \in Contenders \ {c} : ex[d] = "sync_put"]_vars

\* C8 witness: runRestore has returned nil from the guard because of an entry
\* for this host, the phase being Running.
C8_Witness ==
    \E c \in Contenders :
       /\ ex[c] = "returned"
       /\ ret[c] = Nil
       /\ rs[c].phase = "Running"
       /\ rs[c].stats[Host(c)] # NoStat

\* C9: in the step in which a holder that called cancel() leaves the
\* election, the lock becomes acquirable by every waiting contender: the
\* record is gone or the waiting contender's next attempt takes it.
C9_ReleaseOnStepDown ==
    [][\A h, c \in Contenders :
          (Leading(h) /\ cancelled[h] /\ ~Leading(h)' /\ exit'[h] = "zero"
              /\ pc[c] = "acquire")
             => \/ lock' \in {NoHolder, c}
                \/ observed'[c] /\ Expired(c)']_vars

\* C10: at most one contender leads (has received on-acquired and not yet
\* left the election) at a time, and under fair scheduling every contender
\* eventually gets past the election to the guard of its executor and beyond.
C10_AcquisitionLiveness ==
    /\ [](Cardinality({c \in Contenders : Leading(c)}) <= 1)
    /\ \A c \in Contenders : <>(ex[c] \in {"engine", "returned"})

\* C10 witness: a contender leads and is past its guard after another one
\* has led, stepped down and ended.
C10_Witness ==
    /\ Exclusive
    /\ \E a, b \in Contenders :
          /\ a # b
          /\ exit[a] = "zero"
          /\ Leading(b) /\ lock = b /\ ex[b] \in {"engine", "returned"}

\* ---- crash of the holder

\* The record names h, whose process was killed while it led.
CrashedHolder(h) == lock = h /\ exit[h] = "killed"

\* c's next attempt takes the lock.
CanTakeOver(c) == ENABLED (tryAcquire(c) /\ lock' = c)

C12_ModeSelection ==
    /\ restoreModel = RestoreModelJob =>
          /\ lock = NoHolder
          /\ \A c \in Contenders :
                pc[c] \notin {"acquire", "renew"} /\ ~observed[c] /\ ~cancelled[c]
    /\ restoreModel # RestoreModelJob =>
          \A c \in Contenders :
             /\ pc[c] # "run"
             /\ ex[c] # "none" => Leading(c) /\ lock = c
             /\ ex[c] = "done" => cancelled[c]

\* C12 witness: in the job model two contenders are in the engine at the same
\* time and there is no lock record.
C12_Witness ==
    /\ restoreModel = RestoreModelJob
    /\ lock = NoHolder
    /\ \E a, b \in Contenders : a # b /\ ex[a] = "engine" /\ ex[b] = "engine"

\* C13: a step in which Restore returns an error of its preparation leaves
\* the RestoreSession status and the lock record as they are, touches no
\* contender's view of the election, and the contender has not been in the
\* election, the executor or the engine in that process run.
C13_ConfigErrorsAbortEarly ==
    [][\A c \in Contenders :
          (Alive(c) /\ exit'[c] = "error") =>
             /\ pc[c] = "start" /\ ex[c] = "none"
             /\ status' = status
             /\ lock' = lock
             /\ observed' = observed /\ age' = age]_vars

\* C13 witness: a contender has ended with an error of Restore's preparation
\* while another one leads and is in the engine.
C13_Witness ==
    \E c, d \in Contenders :
       /\ exit[c] = "error"
       /\ Leading(d) /\ lock = d /\ ex[d] = "engine"

\* C14: a process in which the failure handler ran ends by itself only after
\* a failure event for its host was written.
C14_FailureEvent ==
    [][\A c \in Contenders :
          (handled[c] /\ Exits(c)) => Host(c) \in events]_vars

\* ---- the merge of a host's outcome

\* The status after c's pending update has been applied to st.
Applied(st, c) ==
    UpdateRestoreSessionStatusForHost(st, targetKind, Host(c), out[c])

\* The step is the write of c's pending update.
Writes(c) ==
    /\ ex[c] = "sync_put"
    /\ ex'[c] \in {"returned", "cancel_failed", "job_failed"}

\* C15: the status never holds more than one entry per host (and holds one
\* exactly when the host has an outcome); applying a pending update twice
\* gives what applying it once gives; and a write of the outcome the host's
\* entry already carries, such as the failure handler's after the executor's,
\* leaves the status as it is.
C15_PerHostUniqueness ==
    /\ [](/\ \A h \in HostIds :
                /\ status.entries[h] <= 1
                /\ status.entries[h] = 1 <=> status.stats[h] # NoStat
          /\ \A c \in Contenders :
                ex[c] = "sync_put" =>
                   /\ Applied(Applied(status, c), c) = Applied(status, c)
                   /\ Applied(Applied(rs[c], c), c) = Applied(rs[c], c))
    /\ [][\A c \in Contenders :
             (Writes(c) /\ status.stats[Host(c)] = out[c]) => status' = status]_vars

\* C15 witness: the executor recorded the engine's failure and the failure
\* handler has written the same failure for the same host again.
C15_Witness ==
    \E c \in Contenders :
       /\ handled[c]
       /\ ex[c] \in {"cancel_failed", "job_failed"}
       /\ restoreErr[c] = TransferErr
       /\ status.stats[Host(c)] = HostRestoreStats("Failed", TransferErr)
       /\ status.entries[Host(c)] = 1

\* The executor or the failure handler of c is past its status update.
Updated(c) ==
    /\ out[c] # NoStat
    /\ ex[c] \in {"returned", "cancel_failed", "job_failed", "fatal", "done"}

\* C16: a write of c's outcome puts c's entry into the status and leaves the
\* entry of every other host as it is; so, when the contenders have hosts of
\* their own, the status holds the outcome of every contender that is past
\* its update.
C16_NoLostUpdates ==
    /\ [][\A c \in Contenders :
             Writes(c) =>
                /\ status'.stats[Host(c)] = out[c]
                /\ \A h \in HostIds \ {Host(c)} :
                      /\ status'.stats[h] = status.stats[h]
                      /\ status'.entries[h] = status.entries[h]]_vars
    /\ [](targetKind = "StatefulSet" =>
             \A c \in Contenders : Updated(c) => status.stats[Host(c)] = out[c])

\* C16 witness: in the job model one contender has written its host's entry
\* since another one, whose update is pending, read the status: the pending
\* write will be refused and done again.
C16_Witness ==
    /\ restoreModel = RestoreModelJob
    /\ \E c, d \in Contenders :
          /\ Host(c) # Host(d)
          /\ Updated(d) /\ status.stats[Host(d)] = out[d]
          /\ ex[c] = "sync_put" /\ ~fresh[c]

\* ---- the callback's window

\* c is in the engine call or in a status update.
InFlight(c) == ex[c] \in {"engine", "sync_put"}

\* C17: in the exclusive model a contender is in its executor or its failure
\* handler, and writes the status, only while it leads, holds the lock record
\* and has not called cancel(); after cancel() it does nothing but end.
C17_WorkInsideWindow ==
    /\ [](Exclusive =>
             \A c \in Contenders :
                /\ ex[c] \in {"guard", "engine", "sync_put", "returned", "cancel_failed"}
                      => Leading(c) /\ lock = c /\ ~cancelled[c]
                /\ cancelled[c] => ex[c] \in {"done", "fatal"})
    /\ [][Exclusive =>
             \A c \in Contenders :
                (Writes(c) \/ (ex[c] # "engine" /\ ex'[c] = "engine"))
                   => Leading(c) /\ lock = c /\ ~cancelled[c] /\ ~cancelled'[c]]_vars

\* C17 witness: the failure handler's status update is pending in a leader
\* that has not called cancel().
C17_Witness ==
    /\ Exclusive
    /\ \E c \in Contenders :
          /\ handled[c] /\ ex[c] = "sync_put"
          /\ Leading(c) /\ lock = c /\ ~cancelled[c]

\* C18: in the exclusive model, after a failure of the executor, cancel() is
\* called only once the failure handler has returned (with or without an
\* error of its own), log.Fatalln is reached only after cancel(), and a
\* process in which the handler ran ends by itself only after cancel() or
\* when its renew loop has given up the lead.
C18_StepDownBeforeTerminating ==
    /\ [](Exclusive =>
             \A c \in Contenders :
                /\ (cancelled[c] /\ ret[c] # Nil) => handled[c]
                /\ ex[c] = "fatal" => handled[c] /\ cancelled[c]
                /\ ex[c] = "cancel_failed" => handled[c] /\ ~cancelled[c])
    /\ [][Exclusive =>
             \A c \in Contenders :
                /\ (handled[c] /\ Exits(c)) =>
                      cancelled[c] \/ age[c] * TickSeconds >= RenewDeadline
                /\ (Alive(c) /\ exit'[c] = "nonzero") =>
                      handled[c] /\ cancelled[c]]_vars

\* C18 witness: the failure handler returned an error of its own (nothing is
\* recorded for the host), cancel() has been called and log.Fatalln is next.
C18_Witness ==
    /\ Exclusive
    /\ \E c \in Contenders :
          /\ ex[c] = "fatal" /\ handled[c] /\ cancelled[c]
          /\ Leading(c)
          /\ status.entries[Host(c)] = 0

\* C19: the engine is entered only from the guard of runRestore, in a process
\* run that has no engine outcome yet, and the guard is entered only at the
\* start of the executor: one process run calls the engine at most once.
C19_NoInProcessRetry ==
    [][\A c \in Contenders :
          /\ (ex[c] # "engine" /\ ex'[c] = "engine") =>
                /\ ex[c] = "guard"
                /\ out[c] = NoStat /\ restoreErr[c] = Nil /\ ~handled[c]
          /\ (ex[c] # "guard" /\ ex'[c] = "guard") => ex[c] = "none"
          /\ (ex[c] = "engine" /\ ex'[c] # "engine" /\ Alive(c)') =>
                out'[c] # NoStat]_vars

\* C19 witness: the engine failed, and the process has gone on to the failure
\* handler without another engine call.
C19_Witness ==
    \E c \in Contenders :
       /\ restoreErr[c] = TransferErr
       /\ handled[c]
       /\ ex[c] = "sync_put"
       /\ out[c] = HostRestoreStats("Failed", TransferErr)

\* C20: no process ends by itself while its engine call or a status update of
\* its executor is in flight.
C20_NonPreemptibleCycle ==
    [][\A c \in Contenders : Exits(c) => ~InFlight(c)]_vars

\* C21: in the exclusive model, the object on which a leader evaluates the
\* guard of runRestore carries the phase and the host entries that the
\* RestoreSession has at that moment.
C21_GuardFreshness ==
    Exclusive =>
        \A c \in Contenders :
           (Leading(c) /\ ex[c] = "guard") =>
              /\ rs[c].phase = status.phase
              /\ rs[c].stats = status.stats

\* C22: in the job model Restore hands its caller the error runRestore
\* returned, unchanged, without a status write; while Restore runs the
\* failure handler is not called and the process does not end by itself
\* (unless Restore's preparation fails): both are done only once Restore has
\* returned.
C22_JobErrorPropagation ==
    /\ [](restoreModel = RestoreModelJob =>
             \A c \in Contenders :
                /\ pc[c] = "run" => ~handled[c] /\ Alive(c)
                /\ handled[c] => pc[c] = "caller")
    /\ [][restoreModel = RestoreModelJob =>
             \A c \in Contenders :
                /\ (pc[c] = "run" /\ pc'[c] = "caller") =>
                      /\ ex[c] = "returned"
                      /\ ret'[c] = ret[c]
                      /\ ~handled'[c] /\ Alive(c)'
                      /\ status' = status
                /\ (Exits(c) /\ exit'[c] # "error") => pc[c] = "caller"]_vars

\* C22 witness: in the job model Restore has returned an error to its caller;
\* the failure handler has not been called and the process has not ended.
C22_Witness ==
    /\ restoreModel = RestoreModelJob
    /\ \E c \in Contenders :
          /\ pc[c] = "caller"
          /\ ret[c] # Nil
          /\ ~handled[c]
          /\ Alive(c)
====
